---- MODULE Spec2Model ----
(***************************************************************************)
(* Model of server.py, the Intervals.icu MCP proxy: six tools that proxy  *)
(* HTTP requests to the primary API (intervals.icu) and, for get_activity, *)
(* to the secondary API (Strava) through _strava_get_activity, which       *)
(* refreshes the OAuth bearer token and retries once on a 401.             *)
(*                                                                         *)
(* Every tool invocation is an asyncio task.  A task runs without          *)
(* interruption between two awaits, and the awaits are the outbound HTTP   *)
(* calls, so one action of the model is the code from one await (or from   *)
(* the call) up to the next await (or to the return / the raise).          *)
(***************************************************************************)
EXTENDS Integers, Sequences, FiniteSets, TLC

VARIABLES
  env,     \* the process environment read by os.getenv at import
  cfg,     \* the module-level globals API_KEY, ATHLETE_ID, STRAVA_*
  tasks,   \* the tool invocations, one record per task slot
  width,   \* how many invocations the event loop runs at the same time
  calls,   \* invocations started so far
  issued   \* access tokens the OAuth endpoint has issued so far

vars == <<env, cfg, tasks, width, calls, issued>>

(***************************************************************************)
(* Bounds of the model.                                                    *)
(***************************************************************************)
NTasks == 2
MaxCalls == 3

Tasks == 1..NTasks

(***************************************************************************)
(* Python values.  None, dicts built by the code (TLA+ records), parsed    *)
(* JSON (tagged with its Python type, for isinstance), text as a sequence  *)
(* of characters where the code matches it against a regular expression.   *)
(***************************************************************************)
None == [none |-> TRUE]

Dict(d) == [t |-> "dict", v |-> d]
List(l) == [t |-> "list", v |-> l]
EmptyDict == <<>>

IsDict(j) == j.t = "dict"

\* dict.get(k, default)
Get(d, k, default) == IF k \in DOMAIN d THEN d[k] ELSE default

\* truth value of a dict-or-None
Truthy(d) == d # None /\ DOMAIN d # {}

RECURSIVE Join(_, _)
\* sep.join(parts)
Join(sep, parts) ==
  IF parts = <<>> THEN ""
  ELSE IF Len(parts) = 1 THEN parts[1]
  ELSE parts[1] \o sep \o Join(sep, Tail(parts))

(***************************************************************************)
(* Characters and regular expressions.  A text is a sequence of one-       *)
(* character strings; "U+0663" stands for the single character ARABIC-     *)
(* INDIC DIGIT THREE, which the class \d of a str pattern matches.         *)
(***************************************************************************)
AsciiDigits == {"0", "1", "2", "3", "4", "5", "6", "7", "8", "9"}
UnicodeDigits == {"U+0663"}
Newline == "\n"

\* one atom of a pattern against one character
AtomMatches(atom, c) ==
  IF atom = "\\d" THEN c \in AsciiDigits \cup UnicodeDigits ELSE c = atom

\* re.compile("^" + atoms + "$").match(s): the atoms match s from its start,
\* and "$" matches at the end of s or just before a newline that ends s.
ReMatch(atoms, s) ==
  /\ Len(s) >= Len(atoms)
  /\ \A i \in 1..Len(atoms) : AtomMatches(atoms[i], s[i])
  /\ \/ Len(s) = Len(atoms)
     \/ Len(s) = Len(atoms) + 1 /\ s[Len(s)] = Newline

DATE_RE == <<"\\d", "\\d", "\\d", "\\d", "-", "\\d", "\\d", "-", "\\d", "\\d">>
DATETIME_RE == DATE_RE \o <<"T", "\\d", "\\d", ":", "\\d", "\\d", ":", "\\d", "\\d">>

BASE_URL == "https://intervals.icu"
STRAVA_BASE_URL == "https://www.strava.com/api/v3"
STRAVA_OAUTH_URL == "https://www.strava.com/oauth/token"

(***************************************************************************)
(* Calendar dates: berlin_today().date(), timedelta and isoformat.         *)
(***************************************************************************)
IsLeap(y) == (y % 4 = 0 /\ y % 100 # 0) \/ y % 400 = 0

DaysInMonth(y, m) ==
  IF m = 2 THEN (IF IsLeap(y) THEN 29 ELSE 28)
  ELSE IF m \in {4, 6, 9, 11} THEN 30 ELSE 31

PrevDay(dt) ==
  IF dt.d > 1 THEN [dt EXCEPT !.d = dt.d - 1]
  ELSE IF dt.m > 1 THEN [y |-> dt.y, m |-> dt.m - 1, d |-> DaysInMonth(dt.y, dt.m - 1)]
  ELSE [y |-> dt.y - 1, m |-> 12, d |-> 31]

RECURSIVE MinusDays(_, _)
\* date - timedelta(days=n)
MinusDays(dt, n) == IF n = 0 THEN dt ELSE MinusDays(PrevDay(dt), n - 1)

Pad2(n) == <<ToString(n \div 10), ToString(n % 10)>>
Pad4(n) == Pad2(n \div 100) \o Pad2(n % 100)

\* date.isoformat()
IsoFormat(dt) == Pad4(dt.y) \o <<"-">> \o Pad2(dt.m) \o <<"-">> \o Pad2(dt.d)

(***************************************************************************)
(* Outcome of the code that runs from a call to its first await: it        *)
(* returns a value, or it opens a session and issues a request on it.      *)
(***************************************************************************)
Return(v) == [kind |-> "return", value |-> v]
Await(session, req) == [kind |-> "await", session |-> session, req |-> req]

MissingKey == [error |-> "Missing INTERVALS_API_KEY env var"]

BasicAuth == <<"API_KEY", cfg.API_KEY>>

EventsUrl == BASE_URL \o "/api/v1/athlete/" \o cfg.ATHLETE_ID \o "/events"
WellnessUrl == BASE_URL \o "/api/v1/athlete/" \o cfg.ATHLETE_ID \o "/wellness"
ActivityUrl(activity_id) == BASE_URL \o "/api/v1/activity/" \o activity_id
CommentsUrl(activity_id) == ActivityUrl(activity_id) \o "/messages"

\* r.json(), and {"raw": r.text} when the body is not JSON
JsonOrRaw(r) ==
  IF r.content.kind = "json" THEN r.content.value
  ELSE Dict([raw |-> r.content.text])

(***************************************************************************)
(* HTTP.  A request is the arguments of client.get / client.post; "to"    *)
(* names the service its URL belongs to.  A response is a status code and *)
(* a body that is JSON or not.                                            *)
(***************************************************************************)
Response(status, content) == [status_code |-> status, content |-> content]
JsonBody(v) == [kind |-> "json", value |-> v]
TextBody(s) == [kind |-> "text", text |-> s]

Pending == [pending |-> TRUE]
TransportFailed == [raised |-> "httpx.TransportError"]

(***************************************************************************)
(* The tools, from the call to the first await.                           *)
(***************************************************************************)
get_last4w_events_params(today) ==
  [oldest |-> IsoFormat(MinusDays(today, 28)), newest |-> IsoFormat(today)]

get_last4w_events(today) ==
  IF cfg.API_KEY = "" THEN Return(MissingKey)
  ELSE Await("primary",
             [to |-> "primary", method |-> "GET", url |-> EventsUrl,
              params |-> get_last4w_events_params(today), auth |-> BasicAuth])

\* variant: the dates are validated before the key is looked at
get_events_key_after_dates(oldest, newest) ==
  IF ~ReMatch(DATE_RE, oldest) \/ ~ReMatch(DATE_RE, newest)
  THEN Return([error |-> "Dates must be in YYYY-MM-DD format"])
  ELSE IF cfg.API_KEY = "" THEN Return(MissingKey)
  ELSE Await("primary",
             [to |-> "primary", method |-> "GET", url |-> EventsUrl,
              params |-> [oldest |-> oldest, newest |-> newest],
              auth |-> BasicAuth])

get_events(oldest, newest) ==
  IF cfg.API_KEY = "" THEN Return(MissingKey)
  ELSE IF ~ReMatch(DATE_RE, oldest) \/ ~ReMatch(DATE_RE, newest)
  THEN Return([error |-> "Dates must be in YYYY-MM-DD format"])
  ELSE Await("primary",
             [to |-> "primary", method |-> "GET", url |-> EventsUrl,
              params |-> [oldest |-> oldest, newest |-> newest],
              auth |-> BasicAuth])

create_event_payload(a) ==
  [category |-> a.category, start_date_local |-> a.start_date_local,
   type |-> a.type, name |-> a.name, description |-> a.description]

create_event(a) ==
  IF cfg.API_KEY = "" THEN Return(MissingKey)
  ELSE IF ~ReMatch(DATETIME_RE, a.start_date_local)
  THEN Return([error |-> "start_date_local must be YYYY-MM-DDTHH:MM:SS"])
  ELSE Await("primary",
             [to |-> "primary", method |-> "POST", url |-> EventsUrl,
              auth |-> BasicAuth, json |-> create_event_payload(a)])

get_wellness_records(oldest, newest) ==
  IF cfg.API_KEY = "" THEN Return(MissingKey)
  ELSE IF ~ReMatch(DATE_RE, oldest) \/ ~ReMatch(DATE_RE, newest)
  THEN Return([error |-> "Dates must be in YYYY-MM-DD format"])
  ELSE Await("primary",
             [to |-> "primary", method |-> "GET", url |-> WellnessUrl,
              params |-> [oldest |-> oldest, newest |-> newest],
              auth |-> BasicAuth])

get_activity(activity_id) ==
  IF cfg.API_KEY = "" THEN Return(MissingKey)
  ELSE Await("primary",
             [to |-> "primary", method |-> "GET",
              url |-> ActivityUrl(activity_id), auth |-> BasicAuth])

get_activity_comments(activity_id) ==
  IF cfg.API_KEY = "" THEN Return(MissingKey)
  ELSE Await("primary",
             [to |-> "primary", method |-> "GET",
              url |-> CommentsUrl(activity_id), auth |-> BasicAuth])

(***************************************************************************)
(* The tools, from the response of the primary API to the return.         *)
(***************************************************************************)
get_last4w_events_return(today, r) ==
  [request |-> [url |-> EventsUrl, params |-> get_last4w_events_params(today),
                status |-> r.status_code],
   data |-> JsonOrRaw(r)]

get_events_return(oldest, newest, r) ==
  [status |-> r.status_code,
   request |-> [params |-> [oldest |-> oldest, newest |-> newest]],
   data |-> JsonOrRaw(r)]

create_event_return(a, r) ==
  [status |-> r.status_code,
   request |-> [url |-> EventsUrl, payload |-> create_event_payload(a)],
   data |-> JsonOrRaw(r)]

get_wellness_records_return(oldest, newest, r) ==
  [status |-> r.status_code,
   request |-> [params |-> [oldest |-> oldest, newest |-> newest]],
   data |-> JsonOrRaw(r)]

\* variant: an upstream status of 400 or more is reported as an error
get_activity_comments_return_checked(r) ==
  IF r.status_code >= 400
  THEN [error |-> "Upstream error", status |-> r.status_code]
  ELSE [status |-> r.status_code, data |-> JsonOrRaw(r)]

get_activity_comments_return(r) ==
  [status |-> r.status_code, data |-> JsonOrRaw(r)]

\* variant: the test looks at the source field alone
IsStravaStub_source(data) ==
  /\ IsDict(data)
  /\ Get(data.v, "source", "") = "STRAVA"

\* the test of get_activity that sends the activity to the secondary API
IsStravaStub(data) ==
  /\ IsDict(data)
  /\ Get(data.v, "source", "") = "STRAVA"
  /\ Get(data.v, "_note", "") = "STRAVA activities are not available via the API"

get_activity_return(r, data) ==
  [status |-> r.status_code, data |-> data]

\* variant: the result of the accessor replaces the primary body
get_activity_return_strava_replaced(r, data, strava) ==
  [status |-> r.status_code, strava |-> strava]

get_activity_return_strava(r, data, strava) ==
  [status |-> r.status_code, data |-> data, strava |-> strava]

(***************************************************************************)
(* The secondary API: configuration gate, token refresh unit, accessor.   *)
(***************************************************************************)
\* variant: only the first missing requirement is reported
_missing_strava_config_first ==
  IF cfg.STRAVA_CLIENT_ID = "" THEN <<"STRAVA_CLIENT_ID">>
  ELSE IF cfg.STRAVA_CLIENT_SECRET = "" THEN <<"STRAVA_CLIENT_SECRET">>
  ELSE IF cfg.STRAVA_REFRESH_TOKEN = "" /\ cfg.STRAVA_ACCESS_TOKEN = ""
  THEN <<"STRAVA_REFRESH_TOKEN or STRAVA_ACCESS_TOKEN">>
  ELSE <<>>

_missing_strava_config ==
  (IF cfg.STRAVA_CLIENT_ID = "" THEN <<"STRAVA_CLIENT_ID">> ELSE <<>>)
  \o (IF cfg.STRAVA_CLIENT_SECRET = "" THEN <<"STRAVA_CLIENT_SECRET">> ELSE <<>>)
  \o (IF cfg.STRAVA_REFRESH_TOKEN = "" /\ cfg.STRAVA_ACCESS_TOKEN = ""
      THEN <<"STRAVA_REFRESH_TOKEN or STRAVA_ACCESS_TOKEN">> ELSE <<>>)

MissingStrava(missing) == [error |-> "Missing env vars: " \o Join(", ", missing)]

\* variant: the refresh sends the refresh token the endpoint handed out last
_refresh_strava_token_rotating ==
  IF \/ cfg.STRAVA_CLIENT_ID = ""
     \/ cfg.STRAVA_CLIENT_SECRET = ""
     \/ cfg.STRAVA_REFRESH_TOKEN = ""
  THEN Return([error |-> "Missing STRAVA_CLIENT_ID/STRAVA_CLIENT_SECRET/STRAVA_REFRESH_TOKEN"])
  ELSE Await("strava",
             [to |-> "oauth", method |-> "POST", url |-> STRAVA_OAUTH_URL,
              data |-> [client_id |-> cfg.STRAVA_CLIENT_ID,
                        client_secret |-> cfg.STRAVA_CLIENT_SECRET,
                        refresh_token |-> IF issued = 0 THEN cfg.STRAVA_REFRESH_TOKEN
                                          ELSE "rt" \o ToString(issued),
                        grant_type |-> "refresh_token"]])

\* _refresh_strava_token, from the call to the await of client.post
_refresh_strava_token ==
  IF \/ cfg.STRAVA_CLIENT_ID = ""
     \/ cfg.STRAVA_CLIENT_SECRET = ""
     \/ cfg.STRAVA_REFRESH_TOKEN = ""
  THEN Return([error |-> "Missing STRAVA_CLIENT_ID/STRAVA_CLIENT_SECRET/STRAVA_REFRESH_TOKEN"])
  ELSE Await("strava",
             [to |-> "oauth", method |-> "POST", url |-> STRAVA_OAUTH_URL,
              data |-> [client_id |-> cfg.STRAVA_CLIENT_ID,
                        client_secret |-> cfg.STRAVA_CLIENT_SECRET,
                        refresh_token |-> cfg.STRAVA_REFRESH_TOKEN,
                        grant_type |-> "refresh_token"]])

\* variant: a status of exactly 400 is not taken as a failure
_refresh_strava_token_return_above(r) ==
  IF r.status_code > 400
  THEN [status |-> r.status_code, error |-> "Failed to refresh Strava token",
        data |-> JsonOrRaw(r)]
  ELSE [status |-> r.status_code, data |-> JsonOrRaw(r)]

\* _refresh_strava_token, from the response of client.post to the return
_refresh_strava_token_return(r) ==
  IF r.status_code >= 400
  THEN [status |-> r.status_code, error |-> "Failed to refresh Strava token",
        data |-> JsonOrRaw(r)]
  ELSE [status |-> r.status_code, data |-> JsonOrRaw(r)]

\* variant: a token obtained by an earlier invocation counts as present
NeedsInitialRefresh_cached(token) ==
  token = "" /\ cfg.STRAVA_REFRESH_TOKEN # "" /\ issued = 0

\* variant: a configured refresh token is used even with a static token
NeedsInitialRefresh_always(token) == cfg.STRAVA_REFRESH_TOKEN # ""

\* the first attempt is preceded by a refresh
NeedsInitialRefresh(token) == token = "" /\ cfg.STRAVA_REFRESH_TOKEN # ""

\* variant: the retry does not look at the status
ShouldRetry_always(r) == cfg.STRAVA_REFRESH_TOKEN # ""

\* the first response sends the accessor into its refresh-and-retry cycle
\* variant: a 401 is retried whether or not a refresh token is configured
ShouldRetry_unauthorized(r) == r.status_code = 401

ShouldRetry(r) == r.status_code = 401 /\ cfg.STRAVA_REFRESH_TOKEN # ""

FirstGet(activity_id, token) ==
  [to |-> "resource", method |-> "GET",
   url |-> STRAVA_BASE_URL \o "/activities/" \o activity_id \o "?include_all_efforts=true",
   headers |-> [Authorization |-> "Bearer " \o token]]

\* variant: the reissued GET asks for all efforts like the first one
RetryGet_all_efforts(activity_id, token) ==
  [to |-> "resource", method |-> "GET",
   url |-> STRAVA_BASE_URL \o "/activities/" \o activity_id \o "?include_all_efforts=true",
   headers |-> [Authorization |-> "Bearer " \o token]]

RetryGet(activity_id, token) ==
  [to |-> "resource", method |-> "GET",
   url |-> STRAVA_BASE_URL \o "/activities/" \o activity_id,
   headers |-> [Authorization |-> "Bearer " \o token]]

\* variant: the error of the refresh replaces the 401 instead of wrapping it
Unauthorized_replaced(r, refreshed) == refreshed

\* the error returned when the refresh after a 401 fails
Unauthorized(r, refreshed) ==
  [status |-> r.status_code, error |-> "Unauthorized from Strava",
   refresh |-> refreshed]

RefreshedToken(refreshed) ==
  [access_token |-> Get(refreshed.data.v, "access_token", ""),
   refresh_token |-> Get(refreshed.data.v, "refresh_token", ""),
   expires_at |-> Get(refreshed.data.v, "expires_at", "")]

\* the value _strava_get_activity returns after its last resource GET
_strava_response(r, refreshed) ==
  IF Truthy(refreshed) /\ "data" \in DOMAIN refreshed
  THEN [status |-> r.status_code, data |-> JsonOrRaw(r),
        refreshed_token |-> RefreshedToken(refreshed)]
  ELSE [status |-> r.status_code, data |-> JsonOrRaw(r)]

(***************************************************************************)
(* Task records and the steps of a task.                                  *)
(***************************************************************************)
IdleTask ==
  [pc |-> "idle", id |-> 0, tool |-> "", args |-> <<>>,
   open |-> {}, closing |-> {}, closed |-> {}, log |-> <<>>,
   pending |-> None, r |-> None, data |-> None, accessor |-> 0, token |-> "",
   refreshed |-> None, sr |-> None, result |-> None, exc |-> ""]

Ended == {"idle", "done", "raised"}
\* suspended in the exit of an "async with" block, which awaits the close of
\* the client
Exiting == {"exit_primary", "exit_strava"}
Awaiting == {"await_primary", "await_refresh1", "await_get1",
             "await_refresh2", "await_get2", "await_token"}

Running == {t \in Tasks : tasks[t].pc \notin Ended}

\* the object that httpx.AsyncClient(timeout=20.0) creates in an "async with"
\* of this invocation: a new one per invocation and per block
Client(tk, session) == <<tk.id, session>>

\* entry into "async with httpx.AsyncClient(timeout=20.0) as client"
Open(tk, session) == [tk EXCEPT !.open = @ \cup {Client(tk, session)}]

\* control leaves the "async with" block of a session and is suspended in
\* the close of its client; then says how it goes on: "continue" after the
\* block, "return" from the function inside the block, "raise" an exception
Leave(tk, session, then) ==
  [tk EXCEPT !.pc = "exit_" \o session,
             !.open = @ \ {Client(tk, session)},
             !.closing = @ \cup (tk.open \cap {Client(tk, session)}),
             !.pending = then]

\* variant: the session stays open after its block
Release_held(tk, session) == tk

\* the close of the client of a session completes
Release(tk, session) ==
  [tk EXCEPT !.closing = @ \ {Client(tk, session)},
             !.closed = @ \cup (tk.closing \cap {Client(tk, session)})]

\* client.get / client.post on a session of this task, up to the await
IssueReq(tk, session, req, pc) ==
  [tk EXCEPT !.pc = pc,
             !.log = Append(@, [client |-> Client(tk, session), req |-> req,
                                resp |-> Pending])]

\* the awaited call of this task completes with response r
Received(tk, r) == [tk EXCEPT !.log[Len(tk.log)].resp = r]

\* variant: the sessions are closed by hand and stay open on an exception
Raise_leak(tk, e) == [tk EXCEPT !.pc = "raised", !.exc = e]

\* the exception of a failed HTTP call leaves the "async with" block and the
\* tool at once: the failed connection is closed already, and the exit of the
\* block has nothing to wait for
Raise(tk, e) ==
  [tk EXCEPT !.pc = "raised", !.exc = e, !.open = {}, !.closed = @ \cup tk.open]

\* an exception of the code inside the block of the accessor, raised after
\* an answer: the exit of the block closes the connection that was kept
RaiseInBlock(tk, e) == Leave(tk, "strava", [kind |-> "raise", exc |-> e])

\* the exception that left the block leaves the accessor and the tool
Reraise(tk) ==
  [tk EXCEPT !.pc = "raised", !.exc = tk.pending.exc, !.pending = None]

\* a tool returns
Finish(tk, v) ==
  [tk EXCEPT !.pc = "done", !.open = {}, !.closed = @ \cup tk.open,
             !.result = v, !.pending = None]

\* _strava_get_activity returns strava: from inside its "async with" block
\* through the exit of the block, before the block (line 73) straight to
\* get_activity, which returns
AccessorReturn(tk, strava) ==
  IF Client(tk, "strava") \in tk.open
  THEN Leave(tk, "strava", [kind |-> "return", value |-> strava])
  ELSE Finish(tk, get_activity_return_strava(tk.r, tk.data, strava))

\* variant: the answer to the reissued GET is handled like the first one
AfterRefresh2_again(tk, refreshed) ==
  IF "error" \in DOMAIN refreshed
  THEN AccessorReturn([tk EXCEPT !.refreshed = refreshed],
                      Unauthorized(tk.sr, refreshed))
  ELSE IF ~IsDict(refreshed.data)
  THEN RaiseInBlock([tk EXCEPT !.refreshed = refreshed], "AttributeError")
  ELSE LET token == Get(refreshed.data.v, "access_token", "")
       IN IssueReq([tk EXCEPT !.refreshed = refreshed, !.token = token],
                   "strava", RetryGet(tk.args.activity_id, token), "await_get1")

\* lines 99-103: the reissued GET
AfterRefresh2(tk, refreshed) ==
  IF "error" \in DOMAIN refreshed
  THEN AccessorReturn([tk EXCEPT !.refreshed = refreshed],
                      Unauthorized(tk.sr, refreshed))
  ELSE IF ~IsDict(refreshed.data)
  THEN RaiseInBlock([tk EXCEPT !.refreshed = refreshed], "AttributeError")
  ELSE LET token == Get(refreshed.data.v, "access_token", "")
       IN IssueReq([tk EXCEPT !.refreshed = refreshed, !.token = token],
                   "strava", RetryGet(tk.args.activity_id, token), "await_get2")

\* lines 91-117: the first response of the resource
AfterGet1(tk, r) ==
  LET tk1 == [tk EXCEPT !.sr = r] IN
  IF ShouldRetry(r)
  THEN IF _refresh_strava_token.kind = "return"
       THEN AfterRefresh2(tk1, _refresh_strava_token.value)
       ELSE IssueReq(tk1, "strava", _refresh_strava_token.req, "await_refresh2")
  ELSE AccessorReturn(tk1, _strava_response(r, tk.refreshed))

\* lines 81-89: the first attempt after the initial refresh
AfterRefresh1(tk, refreshed) ==
  IF "error" \in DOMAIN refreshed
  THEN AccessorReturn([tk EXCEPT !.refreshed = refreshed], refreshed)
  ELSE IF ~IsDict(refreshed.data)
  THEN RaiseInBlock([tk EXCEPT !.refreshed = refreshed], "AttributeError")
  ELSE LET token == Get(refreshed.data.v, "access_token", "")
       IN IssueReq([tk EXCEPT !.refreshed = refreshed, !.token = token],
                   "strava", FirstGet(tk.args.activity_id, token), "await_get1")

\* lines 70-89: _strava_get_activity from its call to its first await
AccessorStart(tk) ==
  LET tk1 == [tk EXCEPT !.accessor = @ + 1]
      missing == _missing_strava_config
      token == cfg.STRAVA_ACCESS_TOKEN
  IN IF missing # <<>>
     THEN AccessorReturn(tk1, MissingStrava(missing))
     ELSE IF NeedsInitialRefresh(token)
     THEN IF _refresh_strava_token.kind = "return"
          THEN AfterRefresh1(Open(tk1, "strava"), _refresh_strava_token.value)
          ELSE IssueReq(Open(tk1, "strava"), "strava",
                        _refresh_strava_token.req, "await_refresh1")
     ELSE IssueReq(Open([tk1 EXCEPT !.token = token], "strava"), "strava",
                   FirstGet(tk.args.activity_id, token), "await_get1")

(***************************************************************************)
(* Inputs of the tools and answers of the two services.  With one         *)
(* invocation at a time (width = 1) they are drawn from the full sets     *)
(* below, with concurrent invocations from the smaller ones.              *)
(***************************************************************************)
Rich == width = 1

D_ok == <<"2", "0", "2", "4", "-", "0", "1", "-", "3", "1">>
D_newline == D_ok \o <<Newline>>
D_newlines == D_ok \o <<Newline, Newline>>
D_trailing == D_ok \o <<"x">>
D_short == <<"2", "0", "2", "4", "-", "1", "-", "3", "1">>
D_slash == <<"2", "0", "2", "4", "/", "0", "1", "/", "3", "1">>
D_unicode == <<"2", "0", "2", "U+0663", "-", "0", "1", "-", "3", "1">>
D_empty == <<>>

DateInputs ==
  IF Rich
  THEN {D_ok, D_newline, D_newlines, D_trailing, D_short, D_slash, D_unicode, D_empty}
  ELSE {D_ok, D_short}

DT_ok == D_ok \o <<"T", "0", "7", ":", "3", "0", ":", "0", "0">>
DT_newline == DT_ok \o <<Newline>>
DT_zone == DT_ok \o <<"Z">>
DT_space == D_ok \o <<" ", "0", "7", ":", "3", "0", ":", "0", "0">>
DT_minutes == D_ok \o <<"T", "0", "7", ":", "3", "0">>

DateTimeInputs ==
  IF Rich THEN {DT_ok, DT_newline, DT_zone, DT_space, DT_minutes, D_ok}
  ELSE {DT_ok, D_ok}

Todays ==
  IF Rich
  THEN {[y |-> 2024, m |-> 6, d |-> 15], [y |-> 2024, m |-> 3, d |-> 10],
        [y |-> 2023, m |-> 1, d |-> 20]}
  ELSE {[y |-> 2024, m |-> 6, d |-> 15]}

ActivityIds == IF Rich THEN {"i101", "i102"} ELSE {"i101"}

Descriptions == IF Rich THEN {"", "- 15m Z2"} ELSE {""}

EventArgs ==
  {[category |-> "WORKOUT", start_date_local |-> s, type |-> "Ride",
    name |-> "Endurance", description |-> d] :
     s \in DateTimeInputs, d \in Descriptions}

StravaStub ==
  Dict("source" :> "STRAVA"
       @@ "_note" :> "STRAVA activities are not available via the API")

PrimaryStatuses == IF Rich THEN {200, 404} ELSE {200}

\* answers of the primary API to the tools other than get_activity
PrimaryResponses ==
  {Response(st, b) :
     st \in PrimaryStatuses,
     b \in IF Rich
           THEN {JsonBody(List(<<>>)), JsonBody(Dict([id |-> "e1"])), TextBody("<html>")}
           ELSE {JsonBody(List(<<>>))}}

\* answers of the primary API to get_activity
ActivityResponses(activity_id) ==
  {Response(st, b) :
     st \in PrimaryStatuses,
     b \in IF Rich
           THEN {JsonBody(StravaStub),
                 JsonBody(Dict("source" :> "STRAVA" @@ "_note" :> "synced")),
                 JsonBody(Dict([source |-> "STRAVA", id |-> activity_id])),
                 JsonBody(Dict([source |-> "GARMIN", id |-> activity_id])),
                 JsonBody(List(<<>>)),
                 TextBody("STRAVA")}
           ELSE {JsonBody(StravaStub),
                 JsonBody(Dict([source |-> "GARMIN", id |-> activity_id]))}}

AccessToken(n) == "at" \o ToString(n)
RotatedToken(n) == "rt" \o ToString(n)

\* a token response of the OAuth endpoint; expires_at is written as text
TokenBody(access, refresh) ==
  JsonBody(Dict([access_token |-> access, refresh_token |-> refresh,
                 expires_at |-> "1790000000"]))

\* answers of the OAuth endpoint when it has issued n access tokens: a new
\* access token, or the last one again while that one has not expired
RefreshResponses(n) ==
  IF Rich
  THEN {Response(200, TokenBody(AccessToken(n + 1), cfg.STRAVA_REFRESH_TOKEN)),
        Response(200, TokenBody(AccessToken(n), cfg.STRAVA_REFRESH_TOKEN)),
        Response(200, TokenBody(AccessToken(n + 1), RotatedToken(n + 1))),
        Response(200, JsonBody(Dict(EmptyDict))),
        Response(200, JsonBody(List(<<>>))),
        Response(200, TextBody("ok")),
        Response(400, JsonBody(Dict([message |-> "Bad Request"]))),
        Response(503, TextBody("Service Unavailable"))}
  ELSE {Response(200, TokenBody(AccessToken(n + 1), cfg.STRAVA_REFRESH_TOKEN)),
        Response(400, JsonBody(Dict([message |-> "Bad Request"])))}

\* the OAuth endpoint issued a new access token in r
IssuesToken(r) ==
  /\ r.content.kind = "json"
  /\ IsDict(r.content.value)
  /\ "access_token" \in DOMAIN r.content.value.v
  /\ r.content.value.v.access_token = AccessToken(issued + 1)

\* answers of the secondary API to a GET of an activity
ResourceResponses(activity_id) ==
  IF Rich
  THEN {Response(200, JsonBody(Dict([id |-> activity_id]))),
        Response(200, TextBody("<html>")),
        Response(401, JsonBody(Dict([message |-> "Authorization Error"]))),
        Response(404, JsonBody(Dict([message |-> "Record Not Found"])))}
  ELSE {Response(200, JsonBody(Dict([id |-> activity_id]))),
        Response(401, JsonBody(Dict([message |-> "Authorization Error"])))}

(***************************************************************************)
(* Actions.                                                               *)
(***************************************************************************)
\* the event loop starts an invocation in the lowest free task slot; a run
\* of concurrent invocations has as many invocations as it has slots
CanStart(t) ==
  /\ tasks[t].pc \in Ended
  /\ Cardinality(Running) < width
  /\ \A u \in Tasks : u < t => u \in Running
  /\ calls < (IF width = 1 THEN MaxCalls ELSE NTasks)

Start(t, tool, args, outcome) ==
  /\ CanStart(t)
  /\ LET tk == [IdleTask EXCEPT !.id = calls + 1, !.tool = tool, !.args = args]
     IN tasks' = [tasks EXCEPT ![t] =
                    IF outcome.kind = "return"
                    THEN Finish(tk, outcome.value)
                    ELSE IssueReq(Open(tk, outcome.session), outcome.session,
                                  outcome.req, "await_primary")]
  /\ calls' = calls + 1
  /\ UNCHANGED <<env, cfg, width, issued>>

Call_get_last4w_events(t) ==
  \E today \in Todays :
    Start(t, "get_last4w_events", [today |-> today], get_last4w_events(today))

Call_get_events(t) ==
  \E oldest \in DateInputs, newest \in DateInputs :
    Start(t, "get_events", [oldest |-> oldest, newest |-> newest],
          get_events(oldest, newest))

Call_create_event(t) ==
  \E a \in EventArgs : Start(t, "create_event", a, create_event(a))

Call_get_wellness_records(t) ==
  \E oldest \in DateInputs, newest \in DateInputs :
    Start(t, "get_wellness_records", [oldest |-> oldest, newest |-> newest],
          get_wellness_records(oldest, newest))

Call_get_activity(t) ==
  \E id \in ActivityIds :
    Start(t, "get_activity", [activity_id |-> id], get_activity(id))

Call_get_activity_comments(t) ==
  \E id \in ActivityIds :
    Start(t, "get_activity_comments", [activity_id |-> id],
          get_activity_comments(id))

\* the primary API answers a tool other than get_activity
PrimaryReturn(t, tool, r) ==
  LET a == tasks[t].args IN
  CASE tool = "get_last4w_events" -> get_last4w_events_return(a.today, r)
    [] tool = "get_events" -> get_events_return(a.oldest, a.newest, r)
    [] tool = "create_event" -> create_event_return(a, r)
    [] tool = "get_wellness_records" -> get_wellness_records_return(a.oldest, a.newest, r)
    [] tool = "get_activity_comments" -> get_activity_comments_return(r)

\* the answer is read inside the block, then control leaves the block
Resp_primary(t) ==
  /\ tasks[t].pc = "await_primary"
  /\ tasks[t].tool # "get_activity"
  /\ \E r \in PrimaryResponses :
       tasks' = [tasks EXCEPT ![t] =
                   Leave([Received(@, r) EXCEPT !.r = r], "primary",
                         [kind |-> "continue"])]
  /\ UNCHANGED <<env, cfg, width, calls, issued>>

\* the client of a tool other than get_activity is closed: the tool returns
Exit_primary(t) ==
  /\ tasks[t].pc = "exit_primary"
  /\ tasks[t].tool # "get_activity"
  /\ LET tk == Release(tasks[t], "primary")
     IN tasks' = [tasks EXCEPT ![t] = Finish(tk, PrimaryReturn(t, tk.tool, tk.r))]
  /\ UNCHANGED <<env, cfg, width, calls, issued>>

\* lines 271-275: the primary API answers get_activity
Resp_get_activity(t) ==
  /\ tasks[t].pc = "await_primary"
  /\ tasks[t].tool = "get_activity"
  /\ \E r \in ActivityResponses(tasks[t].args.activity_id) :
       tasks' = [tasks EXCEPT ![t] =
                   Leave([Received(@, r) EXCEPT !.r = r, !.data = JsonOrRaw(r)],
                         "primary", [kind |-> "continue"])]
  /\ UNCHANGED <<env, cfg, width, calls, issued>>

\* lines 275-285: the primary client of get_activity is closed, then the
\* test of the body and the call of the accessor
Exit_get_activity(t) ==
  /\ tasks[t].pc = "exit_primary"
  /\ tasks[t].tool = "get_activity"
  /\ LET tk == Release(tasks[t], "primary")
     IN tasks' = [tasks EXCEPT ![t] =
                    IF IsStravaStub(tk.data)
                    THEN AccessorStart([tk EXCEPT !.pending = None])
                    ELSE Finish(tk, get_activity_return(tk.r, tk.data))]
  /\ UNCHANGED <<env, cfg, width, calls, issued>>

\* variant: the refreshed access token is stored in the module global
Resp_refresh1_stored(t) ==
  /\ tasks[t].pc = "await_refresh1"
  /\ \E r \in RefreshResponses(issued) :
       /\ tasks' = [tasks EXCEPT ![t] =
                      AfterRefresh1(Received(@, r), _refresh_strava_token_return(r))]
       /\ issued' = IF IssuesToken(r) THEN issued + 1 ELSE issued
       /\ cfg' = IF IssuesToken(r) /\ r.status_code < 400
                 THEN [cfg EXCEPT !.STRAVA_ACCESS_TOKEN = r.content.value.v.access_token]
                 ELSE cfg
  /\ UNCHANGED <<env, width, calls>>

\* lines 80-89: the OAuth endpoint answers the refresh before the first GET
Resp_refresh1(t) ==
  /\ tasks[t].pc = "await_refresh1"
  /\ \E r \in RefreshResponses(issued) :
       /\ tasks' = [tasks EXCEPT ![t] =
                      AfterRefresh1(Received(@, r), _refresh_strava_token_return(r))]
       /\ issued' = IF IssuesToken(r) THEN issued + 1 ELSE issued
  /\ UNCHANGED <<env, cfg, width, calls>>

\* the HTTP library refuses a header value that ends in white space before
\* anything is sent: a GET with an empty token ("Bearer ") reaches no server
\* and client.get raises httpx.LocalProtocolError, a transport error
Sendable(req) ==
  "headers" \in DOMAIN req => req.headers.Authorization # "Bearer "

\* lines 86-117: the secondary API answers the first GET
Resp_get1(t) ==
  /\ tasks[t].pc = "await_get1"
  /\ Sendable(tasks[t].log[Len(tasks[t].log)].req)
  /\ \E r \in ResourceResponses(tasks[t].args.activity_id) :
       tasks' = [tasks EXCEPT ![t] = AfterGet1(Received(@, r), r)]
  /\ UNCHANGED <<env, cfg, width, calls, issued>>

\* lines 92-103: the OAuth endpoint answers the refresh after a 401
Resp_refresh2(t) ==
  /\ tasks[t].pc = "await_refresh2"
  /\ \E r \in RefreshResponses(issued) :
       /\ tasks' = [tasks EXCEPT ![t] =
                      AfterRefresh2(Received(@, r), _refresh_strava_token_return(r))]
       /\ issued' = IF IssuesToken(r) THEN issued + 1 ELSE issued
  /\ UNCHANGED <<env, cfg, width, calls>>

\* lines 101-117: the secondary API answers the reissued GET
Resp_get2(t) ==
  /\ tasks[t].pc = "await_get2"
  /\ Sendable(tasks[t].log[Len(tasks[t].log)].req)
  /\ \E r \in ResourceResponses(tasks[t].args.activity_id) :
       tasks' = [tasks EXCEPT ![t] =
                   AccessorReturn([Received(@, r) EXCEPT !.sr = r],
                                  _strava_response(r, @.refreshed))]
  /\ UNCHANGED <<env, cfg, width, calls, issued>>

\* lines 75-117 and 282-283: the client of the accessor is closed, then the
\* accessor returns to get_activity, which returns, or the exception of the
\* block leaves both
Exit_strava(t) ==
  /\ tasks[t].pc = "exit_strava"
  /\ LET tk == Release(tasks[t], "strava")
     IN tasks' = [tasks EXCEPT ![t] =
                    IF tk.pending.kind = "raise" THEN Reraise(tk)
                    ELSE Finish(tk, get_activity_return_strava(
                                      tk.r, tk.data, tk.pending.value))]
  /\ UNCHANGED <<env, cfg, width, calls, issued>>

\* an awaited HTTP call fails in the transport (timeout, DNS, connection,
\* request refused by the HTTP library): no except clause of the program
\* catches it, and the tool raises in the same step
TransportError(t) ==
  /\ tasks[t].pc \in Awaiting
  /\ tasks' = [tasks EXCEPT ![t] =
                 Raise(Received(@, TransportFailed), "httpx.TransportError")]
  /\ UNCHANGED <<env, cfg, width, calls, issued>>

(***************************************************************************)
(* Specifications.                                                        *)
(***************************************************************************)
Presence(v) == {"", v}

Environments ==
  [API_KEY : Presence("key"), ATHLETE_ID : {"i247"},
   STRAVA_CLIENT_ID : Presence("4711"), STRAVA_CLIENT_SECRET : Presence("secret"),
   STRAVA_ACCESS_TOKEN : Presence("at0"), STRAVA_REFRESH_TOKEN : Presence("rt0")]

Init ==
  /\ env \in Environments
  /\ cfg = env
  /\ tasks = [t \in Tasks |-> IdleTask]
  /\ width = 1
  /\ calls = 0
  /\ issued = 0

InitConc ==
  /\ env \in {e \in Environments :
                e.API_KEY # "" /\ e.STRAVA_CLIENT_ID # "" /\ e.STRAVA_CLIENT_SECRET # ""}
  /\ cfg = env
  /\ tasks = [t \in Tasks |-> IdleTask]
  /\ width = NTasks
  /\ calls = 0
  /\ issued = 0

Step(t) ==
  \/ Call_get_last4w_events(t)
  \/ Call_get_events(t)
  \/ Call_create_event(t)
  \/ Call_get_wellness_records(t)
  \/ Call_get_activity(t)
  \/ Call_get_activity_comments(t)
  \/ Resp_primary(t)
  \/ Exit_primary(t)
  \/ Resp_get_activity(t)
  \/ Exit_get_activity(t)
  \/ Resp_refresh1(t)
  \/ Resp_get1(t)
  \/ Resp_refresh2(t)
  \/ Resp_get2(t)
  \/ Exit_strava(t)
  \/ TransportError(t)

Next == \E t \in Tasks : Step(t)

Spec == Init /\ [][Next]_vars

(***************************************************************************)
(* The token refresh unit on its own: _refresh_strava_token called with   *)
(* the client of its caller under every configuration, also those in     *)
(* which _strava_get_activity never calls it.                             *)
(***************************************************************************)
Call_refresh_token(t) ==
  /\ CanStart(t)
  /\ LET tk == [IdleTask EXCEPT !.id = calls + 1,
                               !.tool = "_refresh_strava_token"]
     IN tasks' = [tasks EXCEPT ![t] =
                    IF _refresh_strava_token.kind = "return"
                    THEN Finish(tk, _refresh_strava_token.value)
                    ELSE IssueReq(tk, "strava", _refresh_strava_token.req,
                                  "await_token")]
  /\ calls' = calls + 1
  /\ UNCHANGED <<env, cfg, width, issued>>

Resp_refresh_token(t) ==
  /\ tasks[t].pc = "await_token"
  /\ \E r \in RefreshResponses(issued) :
       /\ tasks' = [tasks EXCEPT ![t] =
                      Finish(Received(@, r), _refresh_strava_token_return(r))]
       /\ issued' = IF IssuesToken(r) THEN issued + 1 ELSE issued
  /\ UNCHANGED <<env, cfg, width, calls>>

NextUnit ==
  \E t \in Tasks :
    \/ Call_refresh_token(t)
    \/ Resp_refresh_token(t)
    \/ TransportError(t)

SpecUnit == Init /\ [][NextUnit]_vars

SpecConc == InitConc /\ [][Next]_vars

(***************************************************************************)
(* Observations on a task, used by the properties below.                  *)
(***************************************************************************)
\* positions in the log of the requests sent to a service
Sent(tk, to) == {i \in DOMAIN tk.log : tk.log[i].req.to = to}

Gets(tk) == Cardinality(Sent(tk, "resource"))
Refreshes(tk) == Cardinality(Sent(tk, "oauth"))

\* the call at position i was answered with an HTTP response
Answered(tk, i) == "status_code" \in DOMAIN tk.log[i].resp

\* position of the first resource GET (0: none)
FirstGetAt(tk) ==
  IF Sent(tk, "resource") = {} THEN 0
  ELSE CHOOSE i \in Sent(tk, "resource") : \A j \in Sent(tk, "resource") : i <= j

\* the first resource GET was answered with this status
FirstGetStatus(tk, st) ==
  /\ FirstGetAt(tk) > 0
  /\ Answered(tk, FirstGetAt(tk))
  /\ tk.log[FirstGetAt(tk)].resp.status_code = st

\* the refresh call at position i produced a token for the accessor
RefreshYieldsToken(tk, i) ==
  /\ Answered(tk, i)
  /\ tk.log[i].resp.status_code < 400
  /\ IsDict(JsonOrRaw(tk.log[i].resp))

\* the invocation is over: it returned or it raised
Over(tk) == tk.pc \in {"done", "raised"}

\* the invocation returned, or has left its block to return and waits for
\* the close of the client
Returns(tk) ==
  \/ tk.pc = "done"
  \/ tk.pc \in Exiting /\ tk.pending.kind # "raise"

(***************************************************************************)
(* C1 as stated: once the gate has passed, a first GET answered 401 with  *)
(* a refresh token configured means exactly two resource GETs and exactly *)
(* one refresh call, and a first GET answered 200 means exactly one GET   *)
(* and no refresh call, whatever the credentials that pass the gate.      *)
(***************************************************************************)
C1_Original ==
  \A t \in Tasks :
    LET tk == tasks[t] IN
    Over(tk) =>
      /\ (FirstGetStatus(tk, 401) /\ env.STRAVA_REFRESH_TOKEN # "")
            => (Gets(tk) = 2 /\ Refreshes(tk) = 1)
      /\ FirstGetStatus(tk, 200) => (Gets(tk) = 1 /\ Refreshes(tk) = 0)

(***************************************************************************)
(* C1 amended: the counts hold with a static access token; without one a  *)
(* refresh precedes the first GET and adds one refresh call.  After a 401 *)
(* there is exactly one more refresh call, and the second GET is issued   *)
(* exactly when that refresh produced a token.                            *)
(***************************************************************************)
C1_Retry ==
  \A t \in Tasks :
    LET tk == tasks[t]
        before == IF env.STRAVA_ACCESS_TOKEN = "" THEN 1 ELSE 0
    IN Over(tk) =>
         /\ (FirstGetStatus(tk, 401) /\ env.STRAVA_REFRESH_TOKEN # "")
               => /\ Refreshes(tk) = before + 1
                  /\ Gets(tk) = IF RefreshYieldsToken(tk, FirstGetAt(tk) + 1)
                                THEN 2 ELSE 1
         /\ FirstGetStatus(tk, 200)
               => (Gets(tk) = 1 /\ Refreshes(tk) = before)

C1_Witness ==
  \E t \in Tasks :
    /\ tasks[t].pc = "done"
    /\ env.STRAVA_ACCESS_TOKEN # ""
    /\ env.STRAVA_REFRESH_TOKEN # ""
    /\ FirstGetStatus(tasks[t], 401)
    /\ Gets(tasks[t]) = 2
    /\ Refreshes(tasks[t]) = 1

(***************************************************************************)
(* C2: with an empty primary API key every tool, whatever its arguments,  *)
(* returns exactly the missing-key error and issues no HTTP request.      *)
(***************************************************************************)
C2_KeyGate ==
  \A t \in Tasks :
    (tasks[t].pc # "idle" /\ env.API_KEY = "")
      => /\ tasks[t].pc = "done"
         /\ tasks[t].result = [error |-> "Missing INTERVALS_API_KEY env var"]
         /\ tasks[t].log = <<>>
         /\ tasks[t].open = {}

C2_Witness ==
  \E t \in Tasks :
    /\ env.API_KEY = ""
    /\ tasks[t].tool = "get_events"
    /\ tasks[t].args.oldest = D_short
    /\ tasks[t].pc = "done"
    /\ tasks[t].result = MissingKey

(***************************************************************************)
(* C3 as stated: with the key set, a date that is not exactly YYYY-MM-DD  *)
(* (or a datetime that is not exactly YYYY-MM-DDTHH:MM:SS) makes the tool *)
(* return an error without any HTTP request.                              *)
(***************************************************************************)
IsDigit(c) == c \in AsciiDigits \cup UnicodeDigits

\* 4 digits, '-', 2 digits, '-', 2 digits, nothing else
StrictDate(s) ==
  /\ Len(s) = 10
  /\ \A i \in {1, 2, 3, 4, 6, 7, 9, 10} : IsDigit(s[i])
  /\ s[5] = "-" /\ s[8] = "-"

\* a strict date, 'T', then HH:MM:SS, nothing else
StrictDateTime(s) ==
  /\ Len(s) = 19
  /\ StrictDate(SubSeq(s, 1, 10))
  /\ s[11] = "T"
  /\ \A i \in {12, 13, 15, 16, 18, 19} : IsDigit(s[i])
  /\ s[14] = ":" /\ s[17] = ":"

Malformed(tk) ==
  \/ /\ tk.tool \in {"get_events", "get_wellness_records"}
     /\ ~StrictDate(tk.args.oldest) \/ ~StrictDate(tk.args.newest)
  \/ /\ tk.tool = "create_event"
     /\ ~StrictDateTime(tk.args.start_date_local)

C3_Original ==
  \A t \in Tasks :
    (env.API_KEY # "" /\ Malformed(tasks[t]))
      => /\ tasks[t].pc = "done"
         /\ "error" \in DOMAIN tasks[t].result
         /\ tasks[t].log = <<>>

(***************************************************************************)
(* C4: an accessor invocation issues at most two resource GETs, the       *)
(* second one at most once and only after one refresh; the answer to the  *)
(* second GET, a 401 included, is returned with nothing issued after it.  *)
(***************************************************************************)
C4_OneRetry ==
  \A t \in Tasks :
    LET tk == tasks[t]
        n == Len(tk.log)
    IN /\ Gets(tk) <= 2
       /\ Cardinality({i \in Sent(tk, "oauth") : i > FirstGetAt(tk) /\ FirstGetAt(tk) > 0}) <= 1
       /\ n <= 5
       /\ Gets(tk) = 2 =>
            /\ tk.log[n].req.to = "resource"
            /\ tk.log[n].req.url = RetryGet(tk.args.activity_id, "").url
            /\ Answered(tk, n) =>
                 /\ Returns(tk)
                 /\ tk.pc = "done" =>
                      /\ tk.result.strava.status = tk.log[n].resp.status_code
                      /\ tk.result.strava.data = JsonOrRaw(tk.log[n].resp)

C4_Witness ==
  \E t \in Tasks :
    /\ Gets(tasks[t]) = 2
    /\ FirstGetStatus(tasks[t], 401)
    /\ tasks[t].pc = "done"
    /\ tasks[t].log[Len(tasks[t].log)].resp.status_code = 401
    /\ tasks[t].result.strava.status = 401

(***************************************************************************)
(* C5 as stated: the result of an accessor invocation carries the token   *)
(* triple whenever a refresh produced one anywhere in the flow, and       *)
(* carries none when no refresh was made.                                 *)
(***************************************************************************)
C5_Original ==
  \A t \in Tasks :
    LET tk == tasks[t] IN
    (tk.pc = "done" /\ tk.accessor = 1)
      => /\ (\E i \in Sent(tk, "oauth") : RefreshYieldsToken(tk, i))
              => "refreshed_token" \in DOMAIN tk.result.strava
         /\ Sent(tk, "oauth") = {}
              => "refreshed_token" \notin DOMAIN tk.result.strava

(***************************************************************************)
(* C6: under every interleaving of concurrent invocations the bearer      *)
(* token of a resource GET is the configured access token or the access   *)
(* token of an earlier refresh of the same invocation, and the module     *)
(* globals keep the values read from the environment.                     *)
(***************************************************************************)
Bearer(tk, i) == tk.log[i].req.headers.Authorization

\* the access tokens the invocation took from its own refreshes before i
OwnTokens(tk, i) ==
  {Get(JsonOrRaw(tk.log[j].resp).v, "access_token", "") :
     j \in {k \in Sent(tk, "oauth") : k < i /\ RefreshYieldsToken(tk, k)}}

C6_Isolation ==
  /\ cfg = env
  /\ \A t \in Tasks :
       \A i \in Sent(tasks[t], "resource") :
         Bearer(tasks[t], i) \in
           {"Bearer " \o tok :
              tok \in {env.STRAVA_ACCESS_TOKEN} \cup OwnTokens(tasks[t], i)}

C6_Witness ==
  \E t \in Tasks, u \in Tasks :
    /\ t # u
    /\ env.STRAVA_ACCESS_TOKEN = ""
    /\ tasks[t].pc = "await_get1" /\ tasks[u].pc = "await_get1"
    /\ Bearer(tasks[t], 3) = "Bearer " \o AccessToken(2)
    /\ Bearer(tasks[u], 3) = "Bearer " \o AccessToken(1)

(***************************************************************************)
(* C7 as stated: a transport failure of an outbound HTTP call never       *)
(* propagates; the invocation still returns one envelope.                 *)
(***************************************************************************)
C7_Original ==
  \A t \in Tasks :
    LET tk == tasks[t] IN
    (\E i \in DOMAIN tk.log : tk.log[i].resp = TransportFailed)
      => /\ Returns(tk)
         /\ tk.pc = "done" => tk.result # None

(***************************************************************************)
(* C8: when the primary body of get_activity is the STRAVA stub, the      *)
(* accessor is invoked exactly once, for the same activity, after the     *)
(* primary request has completed, and the returned envelope holds the     *)
(* primary body under data and the accessor's result under strava.        *)
(***************************************************************************)
C8_Both ==
  \A t \in Tasks :
    LET tk == tasks[t] IN
    (tk.tool = "get_activity" /\ tk.data = StravaStub)
      => /\ tk.accessor = (IF tk.pc = "exit_primary" THEN 0 ELSE 1)
         /\ tk.accessor = 1 => tk.log[1].client \in tk.closed
         /\ Sent(tk, "primary") = {1} /\ Answered(tk, 1)
         /\ JsonOrRaw(tk.log[1].resp) = StravaStub
         /\ \A i \in Sent(tk, "resource") :
              tk.log[i].req.url \in
                {FirstGet(tk.args.activity_id, "").url,
                 RetryGet(tk.args.activity_id, "").url}
         /\ tk.pc = "done" =>
              /\ DOMAIN tk.result = {"status", "data", "strava"}
              /\ tk.result.data = StravaStub
              /\ tk.result.status = tk.log[1].resp.status_code
              /\ \/ "error" \in DOMAIN tk.result.strava
                 \/ "status" \in DOMAIN tk.result.strava

C8_Witness ==
  \E t \in Tasks :
    /\ tasks[t].pc = "done"
    /\ tasks[t].data = StravaStub
    /\ tasks[t].args.activity_id = "i102"
    /\ Gets(tasks[t]) = 1
    /\ tasks[t].result.data = StravaStub
    /\ tasks[t].result.strava.status = 200

(***************************************************************************)
(* C9: the accessor issues a request only when client id and client       *)
(* secret are present and a refresh token or an access token is present;  *)
(* otherwise it returns at once an error that names every missing         *)
(* requirement.                                                           *)
(***************************************************************************)
Ready ==
  /\ env.STRAVA_CLIENT_ID # ""
  /\ env.STRAVA_CLIENT_SECRET # ""
  /\ env.STRAVA_REFRESH_TOKEN # "" \/ env.STRAVA_ACCESS_TOKEN # ""

\* the error text for each combination of missing requirements
MissingText ==
  LET id == env.STRAVA_CLIENT_ID = ""
      secret == env.STRAVA_CLIENT_SECRET = ""
      tok == env.STRAVA_REFRESH_TOKEN = "" /\ env.STRAVA_ACCESS_TOKEN = ""
  IN CASE id /\ secret /\ tok ->
            "Missing env vars: STRAVA_CLIENT_ID, STRAVA_CLIENT_SECRET, STRAVA_REFRESH_TOKEN or STRAVA_ACCESS_TOKEN"
       [] id /\ secret /\ ~tok -> "Missing env vars: STRAVA_CLIENT_ID, STRAVA_CLIENT_SECRET"
       [] id /\ ~secret /\ tok ->
            "Missing env vars: STRAVA_CLIENT_ID, STRAVA_REFRESH_TOKEN or STRAVA_ACCESS_TOKEN"
       [] ~id /\ secret /\ tok ->
            "Missing env vars: STRAVA_CLIENT_SECRET, STRAVA_REFRESH_TOKEN or STRAVA_ACCESS_TOKEN"
       [] id /\ ~secret /\ ~tok -> "Missing env vars: STRAVA_CLIENT_ID"
       [] ~id /\ secret /\ ~tok -> "Missing env vars: STRAVA_CLIENT_SECRET"
       [] ~id /\ ~secret /\ tok ->
            "Missing env vars: STRAVA_REFRESH_TOKEN or STRAVA_ACCESS_TOKEN"
       [] OTHER -> ""

C9_Gate ==
  \A t \in Tasks :
    LET tk == tasks[t] IN
    tk.accessor = 1 =>
      IF Ready THEN TRUE
      ELSE /\ Sent(tk, "oauth") \cup Sent(tk, "resource") = {}
           /\ tk.pc = "done"
           /\ tk.result.strava = [error |-> MissingText]

C9_Witness ==
  \E t \in Tasks :
    /\ tasks[t].accessor = 1
    /\ env.STRAVA_CLIENT_ID = "" /\ env.STRAVA_CLIENT_SECRET # ""
    /\ env.STRAVA_REFRESH_TOKEN = "" /\ env.STRAVA_ACCESS_TOKEN = ""
    /\ tasks[t].pc = "done"
    /\ Len(tasks[t].log) = 1
    /\ tasks[t].result.strava = [error |-> MissingText]

(***************************************************************************)
(* C10: with no static access token and a refresh token configured,       *)
(* every accessor invocation refreshes before its first resource GET and  *)
(* sends the token of that refresh, however many tokens earlier           *)
(* invocations obtained.                                                  *)
(***************************************************************************)
C10_Stateless ==
  (env.STRAVA_ACCESS_TOKEN = "" /\ env.STRAVA_REFRESH_TOKEN # "")
    => \A t \in Tasks :
         LET tk == tasks[t] IN
         FirstGetAt(tk) > 0
           => /\ FirstGetAt(tk) = 3
              /\ tk.log[2].req.to = "oauth"
              /\ RefreshYieldsToken(tk, 2)
              /\ Bearer(tk, 3) =
                   "Bearer " \o Get(JsonOrRaw(tk.log[2].resp).v, "access_token", "")

C10_Witness ==
  \E t \in Tasks :
    /\ env.STRAVA_ACCESS_TOKEN = ""
    /\ calls = MaxCalls
    /\ issued >= 3
    /\ FirstGetAt(tasks[t]) = 3
    /\ Bearer(tasks[t], 3) = "Bearer " \o AccessToken(issued)

(***************************************************************************)
(* C11: the HTTP sessions of an invocation are released on every exit     *)
(* path (return, error return of the accessor after a failed refresh,     *)
(* exception of an HTTP call); no session serves two invocations, and a   *)
(* request in flight is on a session that is open and was never released. *)
(***************************************************************************)
\* the sessions an invocation opened or sent a request on
ClientsOf(tk) ==
  tk.open \cup tk.closing \cup tk.closed
    \cup {tk.log[i].client : i \in DOMAIN tk.log}

C11_Sessions ==
  \A t \in Tasks :
    LET tk == tasks[t] IN
    /\ Over(tk) => (tk.open = {} /\ tk.closing = {} /\ ClientsOf(tk) = tk.closed)
    /\ tk.open \cap tk.closed = {}
    /\ tk.closing \cap (tk.open \cup tk.closed) = {}
    /\ tk.closing # {} <=> tk.pc \in Exiting
    /\ \A i \in DOMAIN tk.log :
         tk.log[i].resp = Pending => tk.log[i].client \in tk.open
    /\ tk.accessor = 1 => <<tk.id, "primary">> \in tk.closed
    /\ \A u \in Tasks \ {t} :
         (tk.pc # "idle" /\ tasks[u].pc # "idle")
           => ClientsOf(tk) \cap ClientsOf(tasks[u]) = {}

C11_Witness ==
  \E t \in Tasks, u \in Tasks :
    /\ t # u
    /\ tasks[t].pc = "done"
    /\ Gets(tasks[t]) = 1
    /\ "refresh" \in DOMAIN tasks[t].result.strava
    /\ Cardinality(tasks[t].closed) = 2
    /\ tasks[u].pc = "raised"
    /\ Gets(tasks[u]) = 2
    /\ Cardinality(tasks[u].closed) = 2

(***************************************************************************)
(* C12: a tool that passed its gates issues exactly one request to the    *)
(* primary API, and whatever the status of the answer the returned        *)
(* envelope is no error value: it carries that status and the body        *)
(* (parsed, or raw when it is not JSON) as data.                          *)
(***************************************************************************)
\* the status code an envelope carries
EnvelopeStatus(tk) ==
  IF tk.tool = "get_last4w_events" THEN tk.result.request.status
  ELSE tk.result.status

\* the body of a response as an envelope shows it
BodyAsData(resp) ==
  IF resp.content.kind = "json" THEN resp.content.value
  ELSE [t |-> "dict", v |-> [raw |-> resp.content.text]]

C12_PassThrough ==
  \A t \in Tasks :
    LET tk == tasks[t] IN
    tk.log # <<>> =>
      /\ Sent(tk, "primary") = {1}
      /\ tk.log[1].req.url \in
           {EventsUrl, WellnessUrl, ActivityUrl(Get(tk.args, "activity_id", "")),
            CommentsUrl(Get(tk.args, "activity_id", ""))}
      /\ tk.pc = "done" =>
           /\ "error" \notin DOMAIN tk.result
           /\ "data" \in DOMAIN tk.result
           /\ EnvelopeStatus(tk) = tk.log[1].resp.status_code
           /\ tk.result.data = BodyAsData(tk.log[1].resp)

C12_Witness ==
  \E t \in Tasks :
    /\ tasks[t].tool = "get_activity_comments"
    /\ tasks[t].pc = "done"
    /\ Len(tasks[t].log) = 1
    /\ tasks[t].result = [status |-> 404, data |-> [t |-> "dict", v |-> [raw |-> "<html>"]]]

(***************************************************************************)
(* C13: the token refresh unit returns a configuration error that names   *)
(* the missing fields, without a request, when client id, client secret   *)
(* or refresh token is absent; otherwise it issues one POST to the token  *)
(* endpoint, and an answer of status 400 or more is returned as an error  *)
(* with the status and the body, with no second POST.                     *)
(***************************************************************************)
MissingRefreshFields ==
  {f \in {"STRAVA_CLIENT_ID", "STRAVA_CLIENT_SECRET", "STRAVA_REFRESH_TOKEN"} :
     env[f] = ""}

\* the field names that occur in an error text of the program
NamedIn(text) ==
  IF text = "Missing STRAVA_CLIENT_ID/STRAVA_CLIENT_SECRET/STRAVA_REFRESH_TOKEN"
  THEN {"STRAVA_CLIENT_ID", "STRAVA_CLIENT_SECRET", "STRAVA_REFRESH_TOKEN"}
  ELSE {}

C13_RefreshUnit ==
  \A t \in Tasks :
    LET tk == tasks[t] IN
    tk.tool = "_refresh_strava_token" =>
      IF MissingRefreshFields # {}
      THEN /\ tk.pc = "done"
           /\ tk.log = <<>>
           /\ DOMAIN tk.result = {"error"}
           /\ MissingRefreshFields \subseteq NamedIn(tk.result.error)
      ELSE /\ Len(tk.log) = 1
           /\ tk.log[1].req.method = "POST"
           /\ tk.log[1].req.url = "https://www.strava.com/oauth/token"
           /\ tk.log[1].req.data =
                [client_id |-> env.STRAVA_CLIENT_ID,
                 client_secret |-> env.STRAVA_CLIENT_SECRET,
                 refresh_token |-> env.STRAVA_REFRESH_TOKEN,
                 grant_type |-> "refresh_token"]
           /\ (tk.pc = "done" /\ tk.log[1].resp.status_code >= 400)
                => tk.result =
                     [status |-> tk.log[1].resp.status_code,
                      error |-> "Failed to refresh Strava token",
                      data |-> BodyAsData(tk.log[1].resp)]
           /\ (tk.pc = "done" /\ tk.log[1].resp.status_code < 400)
                => "error" \notin DOMAIN tk.result

C13_Witness ==
  \E t \in Tasks :
    /\ tasks[t].tool = "_refresh_strava_token"
    /\ tasks[t].pc = "done"
    /\ MissingRefreshFields = {"STRAVA_REFRESH_TOKEN"}
    /\ tasks[t].log = <<>>
    /\ tasks[t].result =
         [error |-> "Missing STRAVA_CLIENT_ID/STRAVA_CLIENT_SECRET/STRAVA_REFRESH_TOKEN"]

(***************************************************************************)
(* C14: with a static access token the first resource GET carries it and  *)
(* no refresh precedes it; without one, exactly one refresh precedes the  *)
(* first GET, which carries the access token of that refresh; when that   *)
(* refresh fails no resource GET is issued and the accessor returns the   *)
(* error value of the refresh unit unchanged.                             *)
(***************************************************************************)
C14_Acquisition ==
  \A t \in Tasks :
    LET tk == tasks[t] IN
    (tk.accessor = 1 /\ Ready) =>
      IF env.STRAVA_ACCESS_TOKEN # ""
      THEN /\ Len(tk.log) >= 2
           /\ FirstGetAt(tk) = 2
           /\ Bearer(tk, 2) = "Bearer " \o env.STRAVA_ACCESS_TOKEN
      ELSE /\ Len(tk.log) >= 2
           /\ tk.log[2].req.to = "oauth"
           /\ FirstGetAt(tk) > 0 =>
                /\ FirstGetAt(tk) = 3
                /\ tk.log[2].resp.status_code < 400
                /\ Bearer(tk, 3) =
                     "Bearer " \o Get(BodyAsData(tk.log[2].resp).v, "access_token", "")
           /\ (Answered(tk, 2) /\ tk.log[2].resp.status_code >= 400) =>
                /\ Gets(tk) = 0
                /\ Len(tk.log) = 2
                /\ Returns(tk)
                /\ tk.pc = "done" =>
                     tk.result.strava =
                       [status |-> tk.log[2].resp.status_code,
                        error |-> "Failed to refresh Strava token",
                        data |-> BodyAsData(tk.log[2].resp)]

C14_Witness ==
  \E t \in Tasks :
    /\ tasks[t].accessor = 1
    /\ env.STRAVA_ACCESS_TOKEN = ""
    /\ tasks[t].pc = "done"
    /\ Len(tasks[t].log) = 2
    /\ tasks[t].log[2].resp.status_code = 503
    /\ tasks[t].result.strava =
         [status |-> 503, error |-> "Failed to refresh Strava token",
          data |-> [t |-> "dict", v |-> [raw |-> "Service Unavailable"]]]

(***************************************************************************)
(* C15 as stated: the first resource GET always carries                   *)
(* include_all_efforts=true; after a first answer of exactly 401 with a   *)
(* refresh token configured the refresh unit is called, and the reissued  *)
(* GET carries the access token of that refresh, never the token of the   *)
(* first attempt, and no include_all_efforts; after any other first       *)
(* status there is no refresh and no second GET.                          *)
(***************************************************************************)
FirstUrl(id) == "https://www.strava.com/api/v3/activities/" \o id \o "?include_all_efforts=true"
RetryUrl(id) == "https://www.strava.com/api/v3/activities/" \o id

\* the steps of the retry that do not depend on the value of the token
RetryShape(tk) ==
  LET g == FirstGetAt(tk) IN
  g > 0 =>
    /\ tk.log[g].req.url = FirstUrl(tk.args.activity_id)
    /\ (FirstGetStatus(tk, 401) /\ env.STRAVA_REFRESH_TOKEN # "") =>
         /\ Len(tk.log) > g
         /\ tk.log[g + 1].req.to = "oauth"
    /\ (Answered(tk, g) /\ ~(FirstGetStatus(tk, 401) /\ env.STRAVA_REFRESH_TOKEN # "")) =>
         Len(tk.log) = g
    /\ Gets(tk) = 2 =>
         /\ Len(tk.log) = g + 2
         /\ FirstGetStatus(tk, 401)
         /\ tk.log[g + 2].req.url = RetryUrl(tk.args.activity_id)
         /\ Bearer(tk, g + 2) =
              "Bearer " \o Get(BodyAsData(tk.log[g + 1].resp).v, "access_token", "")

C15_Original ==
  \A t \in Tasks :
    /\ RetryShape(tasks[t])
    /\ Gets(tasks[t]) = 2 =>
         Bearer(tasks[t], FirstGetAt(tasks[t]) + 2)
           # Bearer(tasks[t], FirstGetAt(tasks[t]))

(***************************************************************************)
(* C15 amended: as stated, except that the token of the reissued GET is   *)
(* the one the refresh returned whatever the first attempt used: the two  *)
(* are equal when the endpoint returns the same access token again.       *)
(***************************************************************************)
C15_Retry == \A t \in Tasks : RetryShape(tasks[t])

C15_Witness ==
  \E t \in Tasks :
    /\ tasks[t].pc = "await_get2"
    /\ Len(tasks[t].log) = 4
    /\ Bearer(tasks[t], 2) = "Bearer at0"
    /\ Bearer(tasks[t], 4) = "Bearer at1"
    /\ tasks[t].log[2].req.url = FirstUrl("i102")
    /\ tasks[t].log[4].req.url = RetryUrl("i102")

(***************************************************************************)
(* C16: when the first resource GET was answered 401 with a refresh token *)
(* configured and the token endpoint answers the refresh that follows     *)
(* with an error status, the accessor issues no second GET and returns    *)
(* the status 401 and the text "Unauthorized from Strava" with the error  *)
(* of the refresh unit, whole, under the key refresh.                     *)
(***************************************************************************)
C16_WrappedRefreshError ==
  \A t \in Tasks :
    LET tk == tasks[t]
        g == FirstGetAt(tk)
    IN (/\ FirstGetStatus(tk, 401)
        /\ env.STRAVA_REFRESH_TOKEN # ""
        /\ Len(tk.log) > g
        /\ Answered(tk, g + 1)
        /\ tk.log[g + 1].resp.status_code >= 400) =>
         /\ Gets(tk) = 1
         /\ Len(tk.log) = g + 1
         /\ Returns(tk)
         /\ tk.pc = "done" =>
              tk.result.strava =
                [status |-> 401,
                 error |-> "Unauthorized from Strava",
                 refresh |-> [status |-> tk.log[g + 1].resp.status_code,
                              error |-> "Failed to refresh Strava token",
                              data |-> BodyAsData(tk.log[g + 1].resp)]]

C16_Witness ==
  \E t \in Tasks :
    /\ tasks[t].pc = "done"
    /\ env.STRAVA_ACCESS_TOKEN = ""
    /\ Len(tasks[t].log) = 4
    /\ tasks[t].log[3].resp.status_code = 401
    /\ tasks[t].log[4].req.to = "oauth"
    /\ tasks[t].log[4].resp.status_code = 400
    /\ tasks[t].result.strava.status = 401
    /\ tasks[t].result.strava.refresh.status = 400

(***************************************************************************)
(* C17: with a static access token and no refresh token configured, a     *)
(* resource GET answered 401 is followed by no refresh call and no second *)
(* GET, and the accessor returns the status 401 and the body of that      *)
(* response and nothing else: no error key, no token triple.              *)
(***************************************************************************)
C17_NoRetryWithoutRefreshToken ==
  \A t \in Tasks :
    LET tk == tasks[t] IN
    (env.STRAVA_REFRESH_TOKEN = "" /\ FirstGetStatus(tk, 401)) =>
      /\ Refreshes(tk) = 0
      /\ Gets(tk) = 1
      /\ Len(tk.log) = 2
      /\ Bearer(tk, 2) = "Bearer " \o env.STRAVA_ACCESS_TOKEN
      /\ Returns(tk)
      /\ tk.pc = "done" =>
           tk.result.strava = [status |-> 401, data |-> BodyAsData(tk.log[2].resp)]

C17_Witness ==
  \E t \in Tasks :
    /\ env.STRAVA_REFRESH_TOKEN = ""
    /\ env.STRAVA_ACCESS_TOKEN = "at0"
    /\ tasks[t].pc = "done"
    /\ Len(tasks[t].log) = 2
    /\ tasks[t].log[2].resp.status_code = 401
    /\ DOMAIN tasks[t].result.strava = {"status", "data"}
    /\ tasks[t].result.strava.status = 401

(***************************************************************************)
(* C18 as stated: get_activity invokes the accessor, for the same         *)
(* activity id, and attaches its result under the key strava for every    *)
(* primary body that is a JSON object whose source is "STRAVA", whatever  *)
(* its other fields; for every other body the accessor is not invoked and *)
(* the envelope has no key strava.                                        *)
(***************************************************************************)
HasField(body, k, v) ==
  /\ body.t = "dict"
  /\ k \in DOMAIN body.v
  /\ body.v[k] = v

\* get_activity dispatches exactly the bodies that satisfy hosted
Dispatch(tk, hosted) ==
  (tk.tool = "get_activity" /\ tk.log # <<>> /\ Answered(tk, 1)) =>
    IF hosted
    THEN /\ tk.accessor = (IF tk.pc = "exit_primary" THEN 0 ELSE 1)
         /\ FirstGetAt(tk) > 0 =>
              tk.log[FirstGetAt(tk)].req.url = FirstUrl(tk.args.activity_id)
         /\ tk.pc = "done" =>
              /\ DOMAIN tk.result = {"status", "data", "strava"}
              /\ tk.result.data = BodyAsData(tk.log[1].resp)
    ELSE /\ tk.accessor = 0
         /\ Len(tk.log) = 1
         /\ Returns(tk)
         /\ tk.pc = "done" => DOMAIN tk.result = {"status", "data"}

C18_Original ==
  \A t \in Tasks :
    Dispatch(tasks[t],
             HasField(BodyAsData(tasks[t].log[1].resp), "source", "STRAVA"))

(***************************************************************************)
(* C18 amended: the accessor is invoked, and its result attached under    *)
(* strava, exactly for the primary bodies that are a JSON object whose    *)
(* source is "STRAVA" and whose _note is "STRAVA activities are not       *)
(* available via the API"; a body with that source and another _note, or  *)
(* none, is returned like any other body, without the key strava.         *)
(***************************************************************************)
C18_Dispatch ==
  \A t \in Tasks :
    Dispatch(tasks[t],
             /\ HasField(BodyAsData(tasks[t].log[1].resp), "source", "STRAVA")
             /\ HasField(BodyAsData(tasks[t].log[1].resp), "_note",
                         "STRAVA activities are not available via the API"))

C18_Witness ==
  \E t \in Tasks :
    /\ tasks[t].tool = "get_activity"
    /\ tasks[t].pc = "done"
    /\ Len(tasks[t].log) = 1
    /\ tasks[t].log[1].resp.status_code = 200
    /\ HasField(tasks[t].data, "source", "STRAVA")
    /\ HasField(tasks[t].data, "_note", "synced")
    /\ tasks[t].accessor = 0
    /\ "strava" \notin DOMAIN tasks[t].result

(***************************************************************************)
(* C19: every token-refresh POST carries the refresh token of the         *)
(* environment, also the second refresh of an invocation whose first      *)
(* refresh was answered with a rotated refresh token, and the token       *)
(* triple in the result of the accessor is the one of the last refresh of *)
(* the invocation.                                                        *)
(***************************************************************************)
LastRefreshAt(tk) ==
  CHOOSE i \in Sent(tk, "oauth") : \A j \in Sent(tk, "oauth") : j <= i

\* access_token, refresh_token and expires_at of a token response
Triple(resp) ==
  LET body == BodyAsData(resp).v
      field(k) == IF k \in DOMAIN body THEN body[k] ELSE ""
  IN [access_token |-> field("access_token"),
      refresh_token |-> field("refresh_token"),
      expires_at |-> field("expires_at")]

C19_StaticRefreshToken ==
  \A t \in Tasks :
    LET tk == tasks[t] IN
    /\ \A i \in Sent(tk, "oauth") :
         tk.log[i].req.data.refresh_token = env.STRAVA_REFRESH_TOKEN
    /\ (/\ tk.pc = "done"
        /\ Refreshes(tk) > 0
        /\ "error" \notin DOMAIN tk.result.strava) =>
         tk.result.strava.refreshed_token = Triple(tk.log[LastRefreshAt(tk)].resp)

C19_Witness ==
  \E t \in Tasks :
    /\ tasks[t].pc = "done"
    /\ Len(tasks[t].log) = 5
    /\ tasks[t].log[2].req.to = "oauth"
    /\ Triple(tasks[t].log[2].resp).refresh_token = "rt1"
    /\ tasks[t].log[4].req.to = "oauth"
    /\ tasks[t].log[4].req.data.refresh_token = "rt0"
    /\ Triple(tasks[t].log[4].resp).access_token = "at2"
    /\ tasks[t].result.strava.refreshed_token.access_token = "at2"

(***************************************************************************)
(* C20: a request to the secondary service, token endpoint or activity    *)
(* resource, is issued only by a get_activity invocation, after the       *)
(* primary request of that invocation was answered with the stub body and *)
(* after its primary session was released; the other five tools send      *)
(* their one primary request and nothing else; a get_activity invocation  *)
(* sends at most five requests: one primary, at most two refreshes and at *)
(* most two resource GETs.                                                *)
(***************************************************************************)
Secondary(tk) == Sent(tk, "oauth") \cup Sent(tk, "resource")

C20_SecondaryOnlyAfterStub ==
  \A t \in Tasks :
    LET tk == tasks[t] IN
    /\ Secondary(tk) # {} =>
         /\ tk.tool = "get_activity"
         /\ Sent(tk, "primary") = {1}
         /\ Answered(tk, 1)
         /\ HasField(BodyAsData(tk.log[1].resp), "source", "STRAVA")
         /\ HasField(BodyAsData(tk.log[1].resp), "_note",
                     "STRAVA activities are not available via the API")
         /\ tk.log[1].client \in tk.closed
         /\ \A i \in Secondary(tk) : tk.log[i].client # tk.log[1].client
    /\ tk.tool # "get_activity" => Len(tk.log) <= 1
    /\ Len(tk.log) <= 5
    /\ Cardinality(Sent(tk, "primary")) <= 1
    /\ Refreshes(tk) <= 2
    /\ Gets(tk) <= 2

C20_Witness ==
  \E t \in Tasks :
    /\ calls = 2
    /\ tasks[t].tool = "get_activity"
    /\ tasks[t].pc = "await_get2"
    /\ Len(tasks[t].log) = 5
    /\ Refreshes(tasks[t]) = 2
    /\ Gets(tasks[t]) = 2
    /\ tasks[t].log[1].client \in tasks[t].closed
    /\ tasks[t].open = {tasks[t].log[5].client}

====
